---- MODULE Spec2Model ----
(***************************************************************************)
(* cloud-debug-proxy-common: the DebugProxy breakpoint registry and its    *)
(* reconciliation pass (updatePendingBreakpoints), over the Wrapper that   *)
(* talks to the Stackdriver Debug backend.                                 *)
(*                                                                         *)
(* The repository holds several revisions of src/index.ts and of           *)
(* src/wrapper.ts.  proxyV selects the revision of DebugProxy:             *)
(*   "index"   src/src/index.ts          (no p-limit, entry {hit, path})   *)
(*   "plimit"  src/unnamed/part_000:621  (p-limit, entry {hit, path})      *)
(*   "cached"  src/unnamed/part_000:971  (p-limit, entry {hit, breakpoint})*)
(* "plimit" differs from "index" only in the limiter, so the two take the  *)
(* same steps while fewer than CONCURRENCY tasks are dispatched; Init      *)
(* draws proxyV from "index" and "cached".                                 *)
(* wrapperV selects the revision of Wrapper:                               *)
(*   1  src/unnamed/part_000:25     2  src/unnamed/part_000:234            *)
(* ("local" and 0 under SpecLocal, whose Wrapper is not in the sources.)   *)
(* The revision of src/unnamed/part_001 (localBreakpoints / localOnly) has *)
(* a different state and is modelled by the L* actions under SpecLocal.    *)
(*                                                                         *)
(* JavaScript runs one callback at a time: every action below is one       *)
(* synchronous run between two suspension points (await).  The backend is  *)
(* the environment: its responses are chosen nondeterministically.         *)
(*                                                                         *)
(* A Map iterates in insertion order, and the backend chooses the ids, so  *)
(* every order of the keys can occur: the registry is kept as a function   *)
(* from its keys and a step that iterates takes the entries in any order.  *)
(***************************************************************************)
EXTENDS Integers, Sequences, FiniteSets, TLC

\* ---- bounds of the model ----
NumIds == 2          \* breakpoint ids the backend can hand out
MaxSets == 2         \* setBreakpoint calls in one behaviour
MaxAborts == 2       \* aborted (409) list responses in one pass
MaxLocalDeletes == 2 \* delete requests per id (SpecLocal)
MaxBatch == 11       \* tasks of one batch (SpecLimit)

\* ---- program constants ----
ABORTED_ERROR_CODE == 409
CONCURRENCY == 10
OtherStatus == 500

Ids == 1..NumIds
Paths == {"/a.js", "/b.js"}   \* source paths of breakpoint locations
Tokens == {"t1", "t2"}        \* values of nextWaitToken
EmptyToken == ""              \* the initial waitToken; a missing nextWaitToken
ProxyVersions == {"index", "cached"}
WrapperVersions == {1, 2}

VARIABLES
  proxyV,               \* revision of DebugProxy
  wrapperV,             \* revision of Wrapper
  auth,                 \* Wrapper.auth is set
  debuggeeId,           \* Wrapper.debuggeeId is set
  waitToken,            \* Wrapper.waitToken
  breakpointInfoMap,    \* the registry: id -> [hit, path]
  pc,                   \* position of updatePendingBreakpoints
  block,                \* its argument
  pendingBreakpointIdSet,
  getQ,                 \* possiblyHitPromiseList
  delQ,                 \* removedBreakpointPromiseList
  listCalls,            \* list requests sent by the current pass
  tokensSent,           \* the wait tokens those requests carried
  aborts,               \* aborted responses received by the current pass
  emitted,              \* 'breakpointHit' emissions of the current pass
  passResult,           \* how the last pass ended
  passChanged,          \* the current pass has changed the registry, sent a
                        \* delete or emitted
  newlyHit,             \* ids whose hit flag the current pass turned true
  setCount,             \* id -> successful setBreakpoint calls returning it
  deleteCount,          \* id -> delete requests sent to the backend
  lastEvent,            \* id -> "none" | "set" | "evicted"
  localBreakpoints,     \* part_001: DebugProxy.localBreakpoints
  breakpointList,       \* part_001: DebugProxy.breakpointList
  localOnly,            \* part_001: DebugProxy.localOnly
  setReq,               \* set requests of setBreakpoint calls in flight
  delReq,               \* id -> the delete request of the caller operation
                        \* that last evicted id: the operation (by) and the
                        \* request's state (st): "none" | "inflight" | "ok"
                        \* | "failed" ("none" again once id is set again)
  getSent,              \* ids a getBreakpoint call has sent a get request for
  limiter,              \* a batch handed to a limiter: its operation, the
                        \* tasks queued and the tasks running
  call,                 \* one backend call of an operation: the instance,
                        \* the operation, the requests sent, the outcome
                        \* and the list returned
  otherCfg,             \* auth and debuggeeId of a second Wrapper instance
  backend               \* id -> the breakpoint the backend holds under id

vars == <<proxyV, wrapperV, auth, debuggeeId, waitToken, breakpointInfoMap,
          pc, block, pendingBreakpointIdSet, getQ, delQ,
          listCalls, tokensSent, aborts, emitted, passResult, passChanged,
          newlyHit, setCount, deleteCount, lastEvent, localBreakpoints,
          breakpointList, localOnly, setReq, delReq, getSent, limiter,
          call, otherCfg, backend>>

configVars == <<proxyV, wrapperV, auth, debuggeeId>>
passVars == <<pc, block, pendingBreakpointIdSet, getQ, delQ, listCalls,
              tokensSent, aborts, emitted, passResult, passChanged, newlyHit>>
localVars == <<localBreakpoints, breakpointList, localOnly>>
\* The requests of single calls, followed under SpecCalls, SpecLocal,
\* SpecLimit, SpecOneCall and SpecGet only.
callVars == <<setReq, delReq, getSent, limiter, call, otherCfg, backend>>

\* No error; no backend call made yet.
NoError == [response |-> FALSE, status |-> 0]
NoAnswer == [bad |-> {}]
\* A breakpoint as the backend holds and serves it.
Held(i, final) == [id |-> i, isFinalState |-> final]
NoBreakpoint == Held(0, FALSE)
NoCall ==
  [inst |-> "none", op |-> "none", wait |-> FALSE, sent |-> 0,
   outcome |-> "idle", err |-> NoError, answer |-> NoAnswer, result |-> {},
   id |-> 0, got |-> NoBreakpoint, before |-> NoBreakpoint]

\* No delete request of a caller operation has been sent for the id.
NoRequest == [by |-> "none", st |-> "none"]

\* ---- Map<BreakpointId, BreakpointInfo> ----
EmptyMap == [k \in {} |-> [hit |-> FALSE, path |-> ""]]
Keys(m) == DOMAIN m
Has(m, id) == id \in DOMAIN m
Get(m, id) == m[id]
MapSet(m, id, info) ==
  [k \in DOMAIN m \cup {id} |-> IF k = id THEN info ELSE m[k]]
\* Faulty variant of MapDelete: the key stays.
MapDelete_Keeps(m, id) == m
MapDelete(m, id) == [k \in DOMAIN m \ {id} |-> m[k]]
MapDeleteAll(m, S) == [k \in DOMAIN m \ S |-> m[k]]
\* Faulty variant of SetHit: the flag is left to be set after the emission.
SetHit_Deferred(m, id) == m
SetHit(m, id) == [m EXCEPT ![id].hit = TRUE]
\* Faulty variant of GetSnapshotIdList: the filter keeps every entry.
GetSnapshotIdList_All(m, captured) == DOMAIN m
\* getSnapshotIdList(captured), getBreakpointList(captured): the entries whose
\* hit flag is `captured`, given by their ids.
GetSnapshotIdList(m, captured) == {id \in DOMAIN m : m[id].hit = captured}
\* The orders a forEach can visit the keys S in.
Orders(S) ==
  {o \in [1..Cardinality(S) -> S] :
     \A i, j \in 1..Cardinality(S) : i # j => o[i] # o[j]}

\* The promise lists: task id -> state of its promise.
EmptyQ == [k \in {} |-> "queued"]

RECURSIVE SumOver(_, _)
SumOver(f, S) ==
  IF S = {} THEN 0
  ELSE LET x == CHOOSE y \in S : TRUE IN f[x] + SumOver(f, S \ {x})

\* ---- Wrapper ----
\* The checks every backend operation of the Wrapper makes before it sends
\* its request.
ConfigError ==
  IF ~auth THEN "project" ELSE IF ~debuggeeId THEN "debuggee" ELSE "none"

\* The state after `new DebugProxy(options)`.
Constructed ==
  /\ auth = FALSE
  /\ debuggeeId = FALSE
  /\ waitToken = EmptyToken
  /\ breakpointInfoMap = EmptyMap
  /\ pc = "idle"
  /\ block = FALSE
  /\ pendingBreakpointIdSet = {}
  /\ getQ = EmptyQ
  /\ delQ = EmptyQ
  /\ listCalls = 0
  /\ tokensSent = {}
  /\ aborts = 0
  /\ emitted = 0
  /\ passResult = "none"
  /\ passChanged = FALSE
  /\ newlyHit = {}
  /\ setCount = [i \in Ids |-> 0]
  /\ deleteCount = [i \in Ids |-> 0]
  /\ lastEvent = [i \in Ids |-> "none"]
  /\ localBreakpoints = {}
  /\ breakpointList = {}
  /\ localOnly = FALSE
  /\ setReq = 0
  /\ delReq = [i \in Ids |-> NoRequest]
  /\ getSent = {}
  /\ limiter = [op |-> "none", queued |-> 0, active |-> 0, done |-> 0]
  /\ call = NoCall
  /\ otherCfg = [auth |-> FALSE, debuggeeId |-> FALSE]
  /\ backend = [i \in Ids |-> Held(i, FALSE)]

Init ==
  /\ proxyV \in ProxyVersions
  /\ wrapperV \in WrapperVersions
  /\ Constructed

\* Wrapper.authorize, successful.
Authorize ==
  /\ UNCHANGED callVars
  /\ ~auth
  /\ auth' = TRUE
  /\ UNCHANGED <<proxyV, wrapperV, debuggeeId, waitToken, breakpointInfoMap,
                 passVars, setCount, deleteCount, lastEvent,
                 localVars>>

\* DebugProxy.setDebuggeeId.
SetDebuggeeId ==
  /\ UNCHANGED callVars
  /\ ~debuggeeId
  /\ debuggeeId' = TRUE
  /\ UNCHANGED <<proxyV, wrapperV, auth, waitToken, breakpointInfoMap,
                 passVars, setCount, deleteCount, lastEvent,
                 localVars>>

\* ---- DebugProxy: caller operations on the registry ----
\* The entry setBreakpoint stores for the breakpoint the backend returned.
\* Faulty variant of NewInfo: the request, which has no id yet, is cached in
\* place of the breakpoint of the response.
NewInfo_CachesRequest(id, path) ==
  [hit |-> FALSE, path |-> path, breakpoint |-> Held(0, FALSE)]
\* Revision "cached" keeps the breakpoint of the response in the entry
\* (`{[hit]: false, breakpoint}`); its path is the breakpoint's location.path.
NewInfo(id, path) ==
  IF proxyV = "cached"
    THEN [hit |-> FALSE, path |-> path, breakpoint |-> Held(id, FALSE)]
    ELSE [hit |-> FALSE, path |-> path]

\* setBreakpoint from its await on: the Wrapper had found its configuration
\* complete and sent the request, and the response is a valid breakpoint with
\* the id and the location the backend put into it.
SetBreakpoint(id, path) ==
  /\ UNCHANGED callVars
  /\ SumOver(setCount, Ids) < MaxSets
  /\ ConfigError = "none"
  /\ breakpointInfoMap' = MapSet(breakpointInfoMap, id, NewInfo(id, path))
  /\ setCount' = [setCount EXCEPT ![id] = @ + 1]
  /\ lastEvent' = [lastEvent EXCEPT ![id] = "set"]
  /\ UNCHANGED <<configVars, waitToken, passVars, deleteCount, localVars>>

\* setBreakpoint failing: the Wrapper's configuration error, a failed
\* request or a response the Wrapper rejects; nothing is stored.
SetBreakpointFail ==
  /\ UNCHANGED vars

\* getBreakpoint: the ownership check, then the get request; the registry is
\* not touched, whatever the outcome.
GetBreakpoint(id) ==
  /\ UNCHANGED vars

\* The delete requests for the ids of S reach the backend.
SendDeletes(S) == [i \in Ids |-> IF i \in S THEN deleteCount[i] + 1 ELSE deleteCount[i]]
Evicted(S) == [i \in Ids |-> IF i \in S THEN "evicted" ELSE lastEvent[i]]

\* removeBreakpoint: the ownership check (throwing changes nothing), the
\* eviction, then the delete.
RemoveBreakpoint(id) ==
  /\ UNCHANGED callVars
  /\ IF ~Has(breakpointInfoMap, id)
       THEN UNCHANGED <<breakpointInfoMap, deleteCount, lastEvent>>
       ELSE /\ breakpointInfoMap' = MapDelete(breakpointInfoMap, id)
            /\ deleteCount' = SendDeletes({id})
            /\ lastEvent' = Evicted({id})
  /\ UNCHANGED <<configVars, waitToken, passVars, setCount,
                 localVars>>

\* removeAllBreakpoints: one delete per entry, then clear().
RemoveAllBreakpoints ==
  /\ UNCHANGED callVars
  /\ deleteCount' = SendDeletes(Keys(breakpointInfoMap))
  /\ lastEvent' = Evicted(Keys(breakpointInfoMap))
  /\ breakpointInfoMap' = EmptyMap
  /\ UNCHANGED <<configVars, waitToken, passVars, setCount,
                 localVars>>

\* The entries removePendingBreakpointsForFile selects: its forEach.
RECURSIVE ForEachFrom_Shifts(_, _, _, _)
ForEachFrom_Shifts(m, path, order, k) ==
  IF k > Len(order) THEN {}
  ELSE IF ~m[order[k]].hit /\ m[order[k]].path = path
         THEN {order[k]} \cup ForEachFrom_Shifts(m, path, order, k + 2)
         ELSE ForEachFrom_Shifts(m, path, order, k + 1)
\* Faulty variant of PendingForFile: deleting the visited entry moves the
\* entries behind it up by one, and the iteration steps over the next one.
PendingForFile_Shifts(m, path, order) == ForEachFrom_Shifts(m, path, order, 1)
\* forEach from the k-th entry on: a deleted entry leaves the positions of
\* the entries behind it as they are, so each of them is visited.
RECURSIVE ForEachFrom(_, _, _, _)
ForEachFrom(m, path, order, k) ==
  IF k > Len(order) THEN {}
  ELSE (IF ~m[order[k]].hit /\ m[order[k]].path = path
          THEN {order[k]} ELSE {})
       \cup ForEachFrom(m, path, order, k + 1)
\* The ids whose entries the callback of removePendingBreakpointsForFile
\* deletes when forEach visits the entries of m in the given order.
PendingForFile(m, path, order) == ForEachFrom(m, path, order, 1)

\* removePendingBreakpointsForFile: Map.forEach visits every entry also when
\* the visited entry is deleted by the callback.
RemovePendingBreakpointsForFile(path) ==
  /\ UNCHANGED callVars
  /\ \E order \in Orders(Keys(breakpointInfoMap)) :
       LET S == PendingForFile(breakpointInfoMap, path, order) IN
       /\ breakpointInfoMap' = MapDeleteAll(breakpointInfoMap, S)
       /\ deleteCount' = SendDeletes(S)
       /\ lastEvent' = Evicted(S)
  /\ UNCHANGED <<configVars, waitToken, passVars, setCount,
                 localVars>>

\* ---- DebugProxy.updatePendingBreakpoints ----
callerVars == <<configVars, setCount, localVars>>
listVars == <<listCalls, tokensSent, aborts>>

\* What a pass has done so far to the registry, the backend and the listeners.
Changed ==
  \/ breakpointInfoMap' # breakpointInfoMap
  \/ deleteCount' # deleteCount
  \/ emitted' > emitted

\* The pass ends: its promise lists are dropped (responses still under way
\* are ignored by the settled promise).
EndPass(result) ==
  /\ pc' = "idle"
  /\ passResult' = result
  /\ block' = FALSE
  /\ pendingBreakpointIdSet' = {}
  /\ getQ' = EmptyQ
  /\ delQ' = EmptyQ
  /\ listCalls' = 0
  /\ tokensSent' = {}
  /\ aborts' = 0

\* The wait token a list request carries.
RequestToken(wait) == IF wait THEN waitToken ELSE EmptyToken

\* Errors a list call can be rejected with: by the request (with or without
\* a response) or by the Wrapper itself (a plain Error, no response).
ListErrors == [response : BOOLEAN, status : {ABORTED_ERROR_CODE, OtherStatus}]
WrapperError == [response |-> FALSE, status |-> OtherStatus]
\* The aborted condition of the backend: a response with status 409.
IsAborted(error) == error.response /\ error.status = 409

\* Faulty variants of the catch clause: every error is rethrown; none is.
Rethrow_Always(error) == TRUE
Rethrow_Never(error) == FALSE
\* The catch clause: `!error.response || error.response.status !== 409`.
Rethrow(error) == ~error.response \/ error.status # ABORTED_ERROR_CODE

\* The retry loop around the list call, entered with a rejection of the b-call:
\* the error is rethrown, or the loop makes the call again.  aborts counts
\* the aborted rejections the pass has received, listCalls the requests sent.
Caught(error, b) ==
  IF Rethrow(error)
    THEN EndPass(IF IsAborted(error) THEN "abortedError" ELSE "listError")
    ELSE /\ listCalls < MaxAborts + 1
         /\ pc' = "list"
         /\ block' = b
         /\ passResult' = "running"
         /\ aborts' = IF IsAborted(error) THEN aborts + 1 ELSE aborts
         /\ listCalls' = listCalls + 1
         /\ tokensSent' = tokensSent \cup {RequestToken(b)}
         /\ UNCHANGED <<pendingBreakpointIdSet, getQ, delQ>>

\* The call: the first list request, or the Wrapper's configuration error.
UpdatePendingBreakpoints(b) ==
  /\ UNCHANGED callVars
  /\ pc = "idle"
  /\ emitted' = 0
  /\ passChanged' = FALSE
  /\ newlyHit' = {}
  /\ IF ConfigError # "none"
       THEN Caught(WrapperError, b)
       ELSE /\ pc' = "list"
            /\ block' = b
            /\ passResult' = "running"
            /\ listCalls' = 1
            /\ tokensSent' = {RequestToken(b)}
            /\ aborts' = 0
            /\ UNCHANGED <<pendingBreakpointIdSet, getQ, delQ>>
  /\ UNCHANGED <<callerVars, waitToken, breakpointInfoMap, deleteCount,
                 lastEvent>>

\* The list request is rejected.
ListRejected(error) ==
  /\ UNCHANGED callVars
  /\ pc = "list"
  /\ Caught(error, block)
  /\ UNCHANGED <<callerVars, waitToken, breakpointInfoMap, emitted, newlyHit,
                 deleteCount, lastEvent>>
  /\ passChanged' = (passChanged \/ Changed)

\* Responses of the list request: nextWaitToken (EmptyToken: missing), the
\* listed ids (Undefined: no breakpoints field) and the listed elements that
\* are no valid pending breakpoint.
Undefined == {0}
ListResponses ==
  {r \in [tok : Tokens \cup {EmptyToken}, bps : (SUBSET Ids) \cup {Undefined},
          bad : SUBSET Ids] : r.bad \subseteq r.bps /\ Cardinality(r.bad) <= 1}

\* The loop of isPendingBreakpointList and of isDebuggeeList over the
\* elements still to visit, taken in the order of their ids: the first
\* element that is invalid (or, for breakpoints, in final state) ends it.
RECURSIVE AllValidFrom(_, _)
AllValidFrom(todo, bad) ==
  IF todo = {} THEN TRUE
  ELSE LET first == CHOOSE x \in todo : \A y \in todo : x <= y IN
       IF first \in bad THEN FALSE ELSE AllValidFrom(todo \ {first}, bad)
\* Faulty variant of IsPendingBreakpointList: the first element stands for
\* the list.
IsPendingBreakpointList_FirstOnly(list, bad) ==
  list = {} \/ (CHOOSE x \in list : \A y \in list : x <= y) \notin bad
\* isPendingBreakpointList, FALSE also where the first revision throws.
IsPendingBreakpointList(list, bad) == AllValidFrom(list, bad)
\* isDebuggeeList, likewise.
IsDebuggeeList(list, bad) == AllValidFrom(list, bad)

\* Wrapper.debuggeesBreakpointsList after its await: the list it returns (or
\* the error it throws) and the wait token it leaves.
WrapperList(r) ==
  IF wrapperV = 1
    THEN IF \/ r.tok = EmptyToken
            \/ r.bps = Undefined
            \/ ~IsPendingBreakpointList(r.bps, r.bad)
           THEN [ok |-> FALSE, list |-> {}, token |-> waitToken]
           ELSE [ok |-> TRUE, list |-> r.bps, token |-> waitToken]
    ELSE IF r.tok = EmptyToken
           THEN [ok |-> FALSE, list |-> {}, token |-> waitToken]
           ELSE IF r.bps = Undefined
             THEN [ok |-> TRUE, list |-> {}, token |-> r.tok]
             ELSE IF IsPendingBreakpointList(r.bps, r.bad)
               THEN [ok |-> TRUE, list |-> r.bps, token |-> r.tok]
               ELSE [ok |-> FALSE, list |-> {}, token |-> r.tok]

\* Responses of the debuggees list request: the listed debuggees (Undefined:
\* no debuggees field) and the listed elements that are no valid debuggee.
DebuggeesResponses ==
  {r \in [debuggees : (SUBSET Ids) \cup {Undefined}, bad : SUBSET Ids] :
     r.bad \subseteq r.debuggees /\ Cardinality(r.bad) <= 1}

\* Wrapper.debuggeesList after its await.
WrapperDebuggeesList(r) ==
  IF r.debuggees = Undefined
    THEN IF wrapperV = 1 THEN [ok |-> FALSE, list |-> {}]
                         ELSE [ok |-> TRUE, list |-> {}]
    ELSE IF IsDebuggeeList(r.debuggees, r.bad)
      THEN [ok |-> TRUE, list |-> r.debuggees]
      ELSE [ok |-> FALSE, list |-> {}]

\* p-limit: of n tasks handed to a limiter the first CONCURRENCY are started
\* at once; revision "index" has no limiter and starts them all.
Started(n) == IF proxyV = "index" \/ n < CONCURRENCY THEN n ELSE CONCURRENCY
InState(q, st) == {id \in DOMAIN q : q[id] = st}

\* Step 3: the listed ids that are registry keys.
PendingIds(m, list) == {id \in list : Has(m, id)}
\* Step 3: assert.strictEqual(info[hit], false) for each of them.
Step3AssertionHolds(m, list) == \A id \in PendingIds(m, list) : ~Get(m, id).hit
\* A breakpoint as a list response that passed the Wrapper names it: pending.
Listed(id) == Held(id, FALSE)
\* Step 3 of revision "cached":
\* assert.deepStrictEqual(breakpointInfo.breakpoint, breakpoint).
Step3EqualityHolds(m, list) ==
  proxyV = "cached" =>
    \A id \in PendingIds(m, list) : Get(m, id).breakpoint = Listed(id)

\* Faulty variant of PossiblyHit: the listed entries are fetched as well.
PossiblyHit_AllKeys(m, pending) == Keys(m)
\* Faulty variant of PossiblyHit: every id that is not an owned listed one is
\* fetched, in the registry or not.
PossiblyHit_AnyId(m, pending) == Ids \ pending
\* Step 4: one getBreakpoint per registry entry that is not listed.
PossiblyHit(m, pending) == {id \in Keys(m) : id \notin pending}
\* Faulty variant of DispatchGets: the tasks are collected and none is run.
DispatchGets_NoneStarted(m, pending) ==
  {[id \in PossiblyHit(m, pending) |-> "queued"]}
\* Step 4: the promise list, with the get requests that go out at once.
DispatchGets(m, pending) ==
  LET todo == PossiblyHit(m, pending) IN
  {[id \in todo |-> IF id \in S THEN "inflight" ELSE "queued"] :
     S \in {T \in SUBSET todo : Cardinality(T) = Started(Cardinality(todo))}}

\* The list request is answered: Wrapper validation, then steps 3 and 4.
ListResolved(r) ==
  LET w == WrapperList(r) IN
  /\ UNCHANGED callVars
  /\ pc = "list"
  /\ waitToken' = w.token
  /\ IF ~w.ok
       THEN Caught(WrapperError, block)
       ELSE IF ~Step3AssertionHolds(breakpointInfoMap, w.list)
         THEN EndPass("assertError")
       ELSE IF ~Step3EqualityHolds(breakpointInfoMap, w.list)
         THEN EndPass("equalityError")
         ELSE /\ pc' = "gets"
              /\ pendingBreakpointIdSet' = PendingIds(breakpointInfoMap, w.list)
              /\ getQ' \in DispatchGets(breakpointInfoMap,
                                        PendingIds(breakpointInfoMap, w.list))
              /\ block' = FALSE
              /\ listCalls' = 0
              /\ tokensSent' = {}
              /\ aborts' = 0
              /\ UNCHANGED <<delQ, passResult>>
  /\ UNCHANGED <<callerVars, breakpointInfoMap, emitted, newlyHit, deleteCount,
                 lastEvent>>
  /\ passChanged' = (passChanged \/ Changed)

\* p-limit starts a queued task when a task settles; the task is
\* `() => this.getBreakpoint(id)`, whose ownership check throws if the entry
\* has gone meanwhile.
StartQueuedGet(q) ==
  IF InState(q, "queued") = {} THEN {q}
  ELSE {[q EXCEPT ![id] = IF Has(breakpointInfoMap, id)
                            THEN "inflight" ELSE "rejected"] :
          id \in InState(q, "queued")}

\* Faulty variant of AfterGet: a final-state response marks its entry hit as
\* soon as it arrives.
AfterGet_MarksHit(m, id, final) ==
  IF final /\ Has(m, id) THEN SetHit(m, id) ELSE m
\* Faulty variant of AfterGet: the entry read is dropped from the registry.
AfterGet_Forgets(m, id, final) == MapDelete(m, id)
\* getBreakpoint hands the fetched breakpoint to its caller and leaves the
\* registry as it is.
AfterGet(m, id, final) == m

\* A get request of step 4 is answered with a valid breakpoint.
GetResolved(i, final) ==
  /\ UNCHANGED callVars
  /\ pc = "gets"
  /\ i \in DOMAIN getQ
  /\ getQ[i] = "inflight"
  /\ breakpointInfoMap' = AfterGet(breakpointInfoMap, i, final)
  /\ \E q \in StartQueuedGet(
                [getQ EXCEPT ![i] = IF final THEN "final" ELSE "pending"]) :
       IF InState(q, "rejected") # {}
         THEN EndPass("getError")
         ELSE getQ' = q /\ UNCHANGED <<pc, block, pendingBreakpointIdSet, delQ,
                                       passResult, listVars>>
  /\ UNCHANGED <<callerVars, waitToken, emitted, newlyHit, deleteCount,
                 lastEvent>>
  /\ passChanged' = (passChanged \/ Changed)

\* A get request of step 4 fails (or its response is invalid): Promise.all
\* rejects and the pass throws.
GetRejected(i) ==
  /\ UNCHANGED callVars
  /\ pc = "gets"
  /\ i \in DOMAIN getQ
  /\ getQ[i] = "inflight"
  /\ EndPass("getError")
  /\ UNCHANGED <<callerVars, waitToken, breakpointInfoMap, emitted, newlyHit,
                 deleteCount, lastEvent>>
  /\ passChanged' = (passChanged \/ Changed)

\* Step 5, the forEach over the fetched breakpoints.  acc:
\*   map     the registry so far          dels   removedBreakpointPromiseList
\*   hitAny  the local hitAny             newly  ids turned from pending to hit
\*   sent    ids whose delete was sent    thrown the callback threw
\* removeBreakpoint(id), run at once by the limiter or called directly.
RunRemove(acc, id) ==
  IF Has(acc.map, id)
    THEN [acc EXCEPT !.map = MapDelete(acc.map, id),
                     !.sent = acc.sent \cup {id},
                     !.dels = MapSet(acc.dels, id, "inflight")]
    ELSE [acc EXCEPT !.dels = MapSet(acc.dels, id, "rejected")]
\* A breakpoint as a get response reports it.
Fetched(id, st) == Held(id, st = "final")
\* Faulty variant of CachedAtHit: the entry keeps the breakpoint it had.
CachedAtHit_Stale(old, fetched) == old
\* `breakpointInfo.breakpoint = breakpoint` when an entry turns hit.
CachedAtHit(old, fetched) == fetched
\* The final-state branch.  Revision "cached" compares the breakpoint of an
\* entry that is hit already with the fetched one (assert.deepStrictEqual)
\* and stores the fetched breakpoint in an entry that turns hit.
MarkHit(acc, id) ==
  IF ~Has(acc.map, id) THEN [acc EXCEPT !.thrown = TRUE]
  ELSE IF proxyV = "cached" /\ Get(acc.map, id).hit
    THEN IF Get(acc.map, id).breakpoint = Fetched(id, "final")
           THEN acc
           ELSE [acc EXCEPT !.thrown = TRUE, !.unequal = TRUE]
  ELSE [acc EXCEPT !.map = IF proxyV = "cached"
                             THEN [SetHit(acc.map, id) EXCEPT
                                     ![id].breakpoint =
                                       CachedAtHit(Get(acc.map, id).breakpoint,
                                                   Fetched(id, "final"))]
                             ELSE SetHit(acc.map, id),
                   !.hitAny = TRUE,
                   !.newly = IF Get(acc.map, id).hit THEN acc.newly
                             ELSE acc.newly \cup {id}]
\* The other branch.
PushRemove(acc, id) ==
  IF Started(Cardinality(DOMAIN acc.dels) + 1) > Cardinality(DOMAIN acc.dels)
    THEN RunRemove(acc, id)
    ELSE [acc EXCEPT !.dels = MapSet(acc.dels, id, "queued")]
\* Faulty variant of ClassifyOne: every fetched breakpoint is taken for hit.
ClassifyOne_MarksAll(acc, id, st) == MarkHit(acc, id)
ClassifyOne(acc, id, st) ==
  IF st = "final" THEN MarkHit(acc, id) ELSE PushRemove(acc, id)
RECURSIVE ClassifyFrom(_, _, _, _)
ClassifyFrom(q, order, k, acc) ==
  IF k > Len(order) \/ acc.thrown THEN acc
  ELSE ClassifyFrom(q, order, k + 1, ClassifyOne(acc, order[k], q[order[k]]))
Classified(q, order, m) ==
  ClassifyFrom(q, order, 1, [map |-> m, dels |-> EmptyQ, hitAny |-> FALSE,
                             newly |-> {}, sent |-> {}, thrown |-> FALSE,
                             unequal |-> FALSE])

\* Faulty variant of Emit: the event is left to a point after the final
\* await, which a failed delete never reaches.
Emit_Never(hitAny) == emitted
\* Faulty variant of Emit: the event is emitted in the forEach and once more
\* behind it.
Emit_Twice(hitAny) == IF hitAny THEN emitted + 2 ELSE emitted
\* The emission of step 6.
Emit(hitAny) == IF hitAny THEN emitted + 1 ELSE emitted

\* Promise.all of step 4 has resolved: step 5 and the emission of step 6.
Classify ==
  /\ UNCHANGED callVars
  /\ pc = "gets"
  /\ \A i \in DOMAIN getQ : getQ[i] \in {"final", "pending"}
  /\ \E order \in Orders(DOMAIN getQ) :
       LET c == Classified(getQ, order, breakpointInfoMap) IN
       /\ breakpointInfoMap' = c.map
       /\ deleteCount' = SendDeletes(c.sent)
       /\ lastEvent' = Evicted(c.sent)
       /\ newlyHit' = c.newly
       /\ IF c.thrown
            THEN /\ EndPass(IF c.unequal THEN "equalityError"
                                         ELSE "classifyError")
                 /\ UNCHANGED emitted
            ELSE /\ emitted' = Emit(c.hitAny)
                 /\ pc' = "dels"
                 /\ delQ' = c.dels
                 /\ getQ' = EmptyQ
                 /\ UNCHANGED <<block, pendingBreakpointIdSet, passResult,
                                listVars>>
  /\ UNCHANGED <<callerVars, waitToken>>
  /\ passChanged' = (passChanged \/ Changed)

\* p-limit starts a queued `() => this.removeBreakpoint(id)`.
StartQueuedRemove(acc) ==
  IF InState(acc.dels, "queued") = {} THEN {acc}
  ELSE {RunRemove(acc, id) : id \in InState(acc.dels, "queued")}

\* A delete request of step 5 succeeds.
DeleteResolved(i) ==
  /\ UNCHANGED callVars
  /\ pc = "dels"
  /\ i \in DOMAIN delQ
  /\ delQ[i] = "inflight"
  /\ \E a \in StartQueuedRemove([map |-> breakpointInfoMap, sent |-> {},
                                 dels |-> [delQ EXCEPT ![i] = "ok"]]) :
       /\ delQ' = a.dels
       /\ breakpointInfoMap' = a.map
       /\ deleteCount' = SendDeletes(a.sent)
       /\ lastEvent' = Evicted(a.sent)
  /\ UNCHANGED <<callerVars, waitToken, pc, block, pendingBreakpointIdSet,
                 getQ, listVars, emitted, passResult, newlyHit>>
  /\ passChanged' = (passChanged \/ Changed)

\* A delete request of step 5 fails: the final `await Promise.all(...)`
\* rejects and the pass throws.
DeleteRejected(i) ==
  /\ UNCHANGED callVars
  /\ pc = "dels"
  /\ i \in DOMAIN delQ
  /\ delQ[i] = "inflight"
  /\ EndPass("deleteError")
  /\ UNCHANGED <<callerVars, waitToken, breakpointInfoMap, emitted, newlyHit,
                 deleteCount, lastEvent>>
  /\ passChanged' = (passChanged \/ Changed)

\* The final `await Promise.all(removedBreakpointPromiseList)` settles: it
\* rejects with the ownership error of a removeBreakpoint that found its entry
\* gone, and resolves once every delete has succeeded.
PassSettled ==
  /\ UNCHANGED callVars
  /\ pc = "dels"
  /\ \/ /\ InState(delQ, "rejected") # {}
        /\ EndPass("ownershipError")
     \/ /\ \A i \in DOMAIN delQ : delQ[i] = "ok"
        /\ EndPass("ok")
  /\ UNCHANGED <<callerVars, waitToken, breakpointInfoMap, emitted, newlyHit,
                 deleteCount, lastEvent>>
  /\ passChanged' = (passChanged \/ Changed)

CallerStep ==
  \/ Authorize
  \/ SetDebuggeeId
  \/ \E id \in Ids, path \in Paths : SetBreakpoint(id, path)
  \/ SetBreakpointFail
  \/ \E id \in Ids : GetBreakpoint(id)
  \/ \E id \in Ids : RemoveBreakpoint(id)
  \/ RemoveAllBreakpoints
  \/ \E path \in Paths : RemovePendingBreakpointsForFile(path)

PassStep ==
  \/ \E b \in BOOLEAN : UpdatePendingBreakpoints(b)
  \/ \E error \in ListErrors : ListRejected(error)
  \/ \E r \in ListResponses : ListResolved(r)
  \/ \E i \in Ids, final \in BOOLEAN : GetResolved(i, final)
  \/ \E i \in Ids : GetRejected(i)
  \/ Classify
  \/ \E i \in Ids : DeleteResolved(i)
  \/ \E i \in Ids : DeleteRejected(i)
  \/ PassSettled

Next == CallerStep \/ PassStep

Spec == Init /\ [][Next]_vars

\* The backend answers every request of a pass, and the event loop runs the
\* continuation of every answer: a step of the pass that can be taken is
\* taken.  The guard on listCalls keeps the aborted answers of one pass
\* finite, which is the backend answering with something else in the end.
SpecLive == Spec /\ WF_vars(PassStep)

\* ---- DebugProxy of src/unnamed/part_001 ----
\* This revision keeps the ids it has set in localBreakpoints, the last list
\* in breakpointList and the localOnly argument of the last pass.  Its
\* Wrapper is not among the sources: a backend operation succeeds only with
\* the configuration complete, as in the Wrapper revisions that are, and a
\* list call resolves with a list of breakpoints or rejects with an error.
InitLocal ==
  /\ proxyV = "local"
  /\ wrapperV = 0
  /\ Constructed

passGhosts == <<passChanged, newlyHit>>
mapVars == <<breakpointInfoMap, pendingBreakpointIdSet, getQ, delQ, lastEvent,
             waitToken>>

\* checkLocalState: TRUE if it returns, FALSE if it throws.
CheckLocalState(id) == ~(localOnly /\ id \notin localBreakpoints)

\* setBreakpoint from its await on.
LSetBreakpoint(id) ==
  /\ UNCHANGED callVars
  /\ SumOver(setCount, Ids) < MaxSets
  /\ ConfigError = "none"
  /\ localBreakpoints' = localBreakpoints \cup {id}
  /\ setCount' = [setCount EXCEPT ![id] = @ + 1]
  /\ UNCHANGED <<configVars, waitToken, breakpointInfoMap, passVars,
                 deleteCount, lastEvent, breakpointList, localOnly>>

\* getBreakpoint: checkLocalState, then the get request.
LGetBreakpoint(id) ==
  /\ getSent' = IF CheckLocalState(id) /\ ConfigError = "none"
                  THEN getSent \cup {id} ELSE getSent
  /\ UNCHANGED <<configVars, waitToken, breakpointInfoMap, passVars, setCount,
                 deleteCount, lastEvent, localVars, setReq, delReq, limiter,
                 call, otherCfg, backend>>

\* removeBreakpoint: checkLocalState, then the delete request.
LRemoveBreakpoint(id) ==
  /\ UNCHANGED callVars
  /\ deleteCount[id] < MaxLocalDeletes
  /\ IF CheckLocalState(id) /\ ConfigError = "none"
       THEN deleteCount' = SendDeletes({id})
       ELSE UNCHANGED deleteCount
  /\ UNCHANGED <<configVars, waitToken, breakpointInfoMap, passVars, setCount,
                 lastEvent, localVars>>

\* getBreakpointList.
GetBreakpointList ==
  IF localOnly THEN breakpointList \cap localBreakpoints ELSE breakpointList

\* getBreakpointList as a caller of the interface calls it, with the
\* `captured` argument the interface declares: the implementation takes no
\* parameter, so the argument is dropped.
LGetBreakpointList(captured) == GetBreakpointList

\* updatePendingBreakpoints(block, localOnly): the assignment of localOnly
\* and the first list call.
LUpdatePendingBreakpoints(b, lo) ==
  /\ UNCHANGED callVars
  /\ pc = "idle"
  /\ localOnly' = lo
  /\ emitted' = 0
  /\ pc' = "list"
  /\ block' = b
  /\ passResult' = "running"
  /\ listCalls' = 1
  /\ tokensSent' = {RequestToken(b)}
  /\ aborts' = 0
  /\ UNCHANGED <<configVars, setCount, localBreakpoints, breakpointList,
                 mapVars, passGhosts, deleteCount>>

\* The list call rejects.
LListRejected(error) ==
  /\ UNCHANGED callVars
  /\ pc = "list"
  /\ Caught(error, block)
  /\ UNCHANGED <<callerVars, breakpointInfoMap, lastEvent, waitToken,
                 passGhosts, deleteCount, emitted>>

\* The list call resolves: breakpointList is replaced and
\* 'updatedBreakpoints' is emitted (counted in emitted).
LListResolved(list) ==
  /\ UNCHANGED callVars
  /\ pc = "list"
  /\ ConfigError = "none"
  /\ breakpointList' = list
  /\ emitted' = emitted + 1
  /\ EndPass("ok")
  /\ UNCHANGED <<configVars, setCount, localBreakpoints, localOnly,
                 breakpointInfoMap, lastEvent, waitToken, passGhosts,
                 deleteCount>>

NextLocal ==
  \/ Authorize
  \/ SetDebuggeeId
  \/ \E id \in Ids : LSetBreakpoint(id)
  \/ \E id \in Ids : LGetBreakpoint(id)
  \/ \E id \in Ids : LRemoveBreakpoint(id)
  \/ \E b, lo \in BOOLEAN : LUpdatePendingBreakpoints(b, lo)
  \/ \E error \in ListErrors : LListRejected(error)
  \/ \E list \in SUBSET Ids : LListResolved(list)

SpecLocal == InitLocal /\ [][NextLocal]_vars

\* ---- the caller's operations with their requests ----
\* SpecCalls follows what Spec leaves out: a setBreakpoint is a call and,
\* later, the answer to its set request, and the delete request of a remove*
\* operation is answered after the operation has evicted the entry.  The
\* operations are those of the Map-based revisions, which do not differ here.
\* Of a pass only its marking of an entry is kept.
InitCalls ==
  /\ proxyV = "index"
  /\ wrapperV = 0
  /\ Constructed

callFrame == <<configVars, waitToken, passVars, localVars, getSent, limiter,
               call, otherCfg, backend>>

\* setBreakpoint up to its await: the Wrapper throws on an incomplete
\* configuration, else the set request goes out.
CSetCall ==
  /\ SumOver(setCount, Ids) + setReq < MaxSets
  /\ setReq' = IF ConfigError = "none" THEN setReq + 1 ELSE setReq
  /\ UNCHANGED <<breakpointInfoMap, setCount, deleteCount, lastEvent, delReq,
                 callFrame>>

\* Answers to a set request: the breakpoint's id and path, and whether the
\* Wrapper finds `response.data.breakpoint` a breakpoint.
SetResponses == [id : Ids, path : Paths, valid : BOOLEAN]

\* Faulty variant of AfterSet: the entry is stored whatever the Wrapper
\* finds.
AfterSet_StoresInvalid(m, r) == MapSet(m, r.id, NewInfo(r.id, r.path))
\* The registry once the set request is answered: the Wrapper throws on an
\* invalid response, else setBreakpoint stores the entry.
AfterSet(m, r) ==
  IF r.valid THEN MapSet(m, r.id, NewInfo(r.id, r.path)) ELSE m

\* The set request is answered.
CSetResolved(r) ==
  /\ setReq > 0
  /\ setReq' = setReq - 1
  /\ breakpointInfoMap' = AfterSet(breakpointInfoMap, r)
  /\ IF r.valid
       THEN /\ setCount' = [setCount EXCEPT ![r.id] = @ + 1]
            /\ lastEvent' = [lastEvent EXCEPT ![r.id] = "set"]
            /\ delReq' = [delReq EXCEPT ![r.id] = NoRequest]
       ELSE UNCHANGED <<setCount, lastEvent, delReq>>
  /\ UNCHANGED <<deleteCount, callFrame>>

\* The set request fails.
CSetRejected ==
  /\ setReq > 0
  /\ setReq' = setReq - 1
  /\ UNCHANGED <<breakpointInfoMap, setCount, deleteCount, lastEvent, delReq,
                 callFrame>>

\* The delete requests that operation `by` sends for the ids of S are out.
InFlight(S, by) ==
  [i \in Ids |-> IF i \in S THEN [by |-> by, st |-> "inflight"] ELSE delReq[i]]

\* removeBreakpoint up to its await.
CRemoveBreakpoint(id) ==
  /\ IF ~Has(breakpointInfoMap, id)
       THEN UNCHANGED <<breakpointInfoMap, deleteCount, lastEvent, delReq>>
       ELSE /\ breakpointInfoMap' = MapDelete(breakpointInfoMap, id)
            /\ deleteCount' = SendDeletes({id})
            /\ lastEvent' = Evicted({id})
            /\ delReq' = InFlight({id}, "removeBreakpoint")
  /\ UNCHANGED <<setCount, setReq, callFrame>>

\* Faulty variant of Cleared: clear() is missing.
Cleared_Not(m) == m
\* breakpointInfoMap.clear().
Cleared(m) == EmptyMap

\* removeAllBreakpoints up to its await.
CRemoveAllBreakpoints ==
  /\ deleteCount' = SendDeletes(Keys(breakpointInfoMap))
  /\ lastEvent' = Evicted(Keys(breakpointInfoMap))
  /\ delReq' = InFlight(Keys(breakpointInfoMap), "removeAllBreakpoints")
  /\ breakpointInfoMap' = Cleared(breakpointInfoMap)
  /\ UNCHANGED <<setCount, setReq, callFrame>>

\* removePendingBreakpointsForFile up to its await.
CRemovePendingBreakpointsForFile(path) ==
  /\ \E order \in Orders(Keys(breakpointInfoMap)) :
       LET S == PendingForFile(breakpointInfoMap, path, order) IN
       /\ breakpointInfoMap' = MapDeleteAll(breakpointInfoMap, S)
       /\ deleteCount' = SendDeletes(S)
       /\ lastEvent' = Evicted(S)
       /\ delReq' = InFlight(S, "removePendingBreakpointsForFile")
  /\ UNCHANGED <<setCount, setReq, callFrame>>

\* Faulty variant of AfterDelete: a failed delete puts a pending entry back.
AfterDelete_Restores(m, id, ok) ==
  IF ok THEN m ELSE MapSet(m, id, NewInfo(id, "/a.js"))
\* The registry once a delete request of a remove* operation is answered:
\* nothing follows the await but the settling of the operation's promise.
AfterDelete(m, id, ok) == m

\* A pass of updatePendingBreakpoints has fetched id in final state: step 5
\* marks its entry hit.
CPassMarksHit(id) ==
  /\ Has(breakpointInfoMap, id)
  /\ ~Get(breakpointInfoMap, id).hit
  /\ breakpointInfoMap' = SetHit(breakpointInfoMap, id)
  /\ UNCHANGED <<setCount, setReq, deleteCount, lastEvent, delReq, callFrame>>

\* The delete request for id is answered.
CDeleteSettled(id, ok) ==
  /\ delReq[id].st = "inflight"
  /\ delReq' = [delReq EXCEPT ![id].st = IF ok THEN "ok" ELSE "failed"]
  /\ breakpointInfoMap' = AfterDelete(breakpointInfoMap, id, ok)
  /\ UNCHANGED <<setCount, setReq, deleteCount, lastEvent, callFrame>>

NextCalls ==
  \/ Authorize
  \/ SetDebuggeeId
  \/ CSetCall
  \/ \E r \in SetResponses : CSetResolved(r)
  \/ CSetRejected
  \/ \E id \in Ids : GetBreakpoint(id)
  \/ \E id \in Ids : CRemoveBreakpoint(id)
  \/ CRemoveAllBreakpoints
  \/ \E path \in Paths : CRemovePendingBreakpointsForFile(path)
  \/ \E id \in Ids : CPassMarksHit(id)
  \/ \E id \in Ids, ok \in BOOLEAN : CDeleteSettled(id, ok)

SpecCalls == InitCalls /\ [][NextCalls]_vars

\* ---- batches of backend calls ----
\* A batch is what one forEach hands out: the gets of step 4, the removals
\* of step 5, the deletes of removeAllBreakpoints or of
\* removePendingBreakpointsForFile.  Revision "index" calls the Wrapper for
\* each task directly; the revisions of part_000 pass each task to one
\* pLimit(CONCURRENCY).  limiter counts the tasks of the batch that wait in
\* the limiter's queue, that have their request out, and that have settled.
LimitOps == {"gets", "removals", "removeAll", "removeForFile"}

InitLimit ==
  /\ proxyV \in ProxyVersions
  /\ wrapperV = 0
  /\ Constructed

limitFrame == <<configVars, waitToken, breakpointInfoMap, passVars, setCount,
                deleteCount, lastEvent, localVars, setReq, delReq, getSent,
                call, otherCfg, backend>>

\* The forEach that hands n tasks out has run.
Dispatch(op, n) ==
  /\ limiter.active = 0 /\ limiter.queued = 0
  /\ limiter' = [op |-> op, queued |-> n - Started(n), active |-> Started(n),
                 done |-> 0]
  /\ UNCHANGED limitFrame

\* A request of the batch settles; the limiter, if it holds a task back,
\* starts the next one.
TaskSettled ==
  /\ limiter.active > 0
  /\ limiter' = IF limiter.queued > 0
                  THEN [limiter EXCEPT !.queued = @ - 1, !.done = @ + 1]
                  ELSE [limiter EXCEPT !.active = @ - 1, !.done = @ + 1]
  /\ UNCHANGED limitFrame

\* Step 5 and step 6 of a pass whose step 4 fetched n breakpoints that are
\* not final and, if hitAny, one that is: the forEach hands the n
\* removeBreakpoint tasks out, and the emission follows in the same run.  A
\* task runs removeBreakpoint, eviction and delete request, when it is
\* started; a task the limiter holds back has done neither yet.
ClassifyRemovals(n, hitAny) ==
  /\ limiter.active = 0 /\ limiter.queued = 0
  /\ limiter' = [op |-> "removals", queued |-> n - Started(n),
                 active |-> Started(n), done |-> 0]
  /\ emitted' = IF hitAny THEN 1 ELSE 0
  /\ UNCHANGED <<configVars, waitToken, breakpointInfoMap, pc, block,
                 pendingBreakpointIdSet, getQ, delQ, listCalls, tokensSent,
                 aborts, passResult, passChanged, newlyHit, setCount,
                 deleteCount, lastEvent, localVars, setReq, delReq, getSent,
                 call, otherCfg, backend>>

NextLimit ==
  \/ \E op \in LimitOps, n \in 1..MaxBatch : Dispatch(op, n)
  \/ \E n \in 1..MaxBatch, hitAny \in BOOLEAN : ClassifyRemovals(n, hitAny)
  \/ TaskSettled

SpecLimit == InitLimit /\ [][NextLimit]_vars

\* ---- one backend call of an operation, on one of two instances ----
\* SpecOneCall follows a single backend call from the operation that makes it
\* to its outcome: the Wrapper's configuration checks, the request, and what
\* the operation does with a rejection.  Two instances are configured
\* independently; `auth` and `debuggeeId` are fields of each.
Instances == {"this", "other"}
\* The operations, each with the Wrapper operation it calls: the list call of
\* updatePendingBreakpoints, the getBreakpoint of its step 4, getBreakpoint,
\* setBreakpoint, the delete of each remove* operation, and getDebuggees.
BackendOps ==
  {"list", "passGet", "getBreakpoint", "setBreakpoint", "removeBreakpoint",
   "removeAllBreakpoints", "removePendingBreakpointsForFile", "getDebuggees"}

InitOneCall ==
  /\ proxyV = "index"
  /\ wrapperV \in WrapperVersions
  /\ Constructed

oneCallFrame == <<configVars, breakpointInfoMap, passVars, setCount,
                  deleteCount, lastEvent, localVars, setReq, delReq, getSent,
                  limiter, backend>>

\* Faulty variant of WrapperCheck: the debuggee is looked at first.
WrapperCheck_DebuggeeFirst(w, op) ==
  LET a == IF w = "this" THEN auth ELSE otherCfg.auth
      d == IF w = "this" THEN debuggeeId ELSE otherCfg.debuggeeId IN
  IF op # "getDebuggees" /\ ~d THEN "debuggee"
  ELSE IF ~a THEN "project" ELSE "none"
\* The checks at the head of the Wrapper operation that op calls on instance
\* w: `!this.auth`, then, for the breakpoint operations, `!this.debuggeeId`.
WrapperCheck(w, op) ==
  LET a == IF w = "this" THEN auth ELSE otherCfg.auth
      d == IF w = "this" THEN debuggeeId ELSE otherCfg.debuggeeId IN
  IF ~a THEN "project"
  ELSE IF op # "getDebuggees" /\ ~d THEN "debuggee" ELSE "none"

\* Faulty variant of Retries: every operation is wrapped in the retry loop.
Retries_Any(op, error) == ~Rethrow(error)
\* Whether the operation makes the call again after the rejection: the one
\* try/catch is the loop around the list call of updatePendingBreakpoints.
Retries(op, error) == op = "list" /\ ~Rethrow(error)

\* authorize and the assignment of debuggeeId on the second instance.
OtherAuthorize ==
  /\ ~otherCfg.auth
  /\ otherCfg' = [otherCfg EXCEPT !.auth = TRUE]
  /\ UNCHANGED <<oneCallFrame, waitToken, call>>
OtherSetDebuggeeId ==
  /\ ~otherCfg.debuggeeId
  /\ otherCfg' = [otherCfg EXCEPT !.debuggeeId = TRUE]
  /\ UNCHANGED <<oneCallFrame, waitToken, call>>

\* Operation op of instance w calls the Wrapper: its checks throw, or the
\* request goes out.  b is the `block` argument of updatePendingBreakpoints.
BackendCall(w, op, b) ==
  /\ call.outcome # "pending"
  /\ op # "list" => ~b
  /\ call' = IF WrapperCheck(w, op) # "none"
               THEN [NoCall EXCEPT !.inst = w, !.op = op, !.wait = b,
                                   !.outcome = WrapperCheck(w, op)]
               ELSE [NoCall EXCEPT !.inst = w, !.op = op, !.wait = b,
                                   !.sent = 1, !.outcome = "pending"]
  /\ UNCHANGED <<oneCallFrame, waitToken, otherCfg>>

\* The request is rejected: the operation makes the call again or lets the
\* error through to its caller.
BackendRejected(error) ==
  /\ call.outcome = "pending"
  /\ IF Retries(call.op, error)
       THEN /\ call.sent < MaxAborts + 1
            /\ call' = [call EXCEPT !.sent = @ + 1]
       ELSE call' = [call EXCEPT !.outcome = "thrown", !.err = error]
  /\ UNCHANGED <<oneCallFrame, waitToken, otherCfg>>

\* What the operation hands to its caller once the Wrapper has looked at the
\* answer r: the list, or the Wrapper's error.
Answered(r, w) ==
  IF w.ok THEN [call EXCEPT !.outcome = "returned", !.answer = r,
                            !.result = w.list]
          ELSE [call EXCEPT !.outcome = "thrown", !.answer = r,
                            !.err = WrapperError]

\* The list request is answered (the wait token is followed for the first
\* instance only).
ListAnswered(r) ==
  /\ call.outcome = "pending"
  /\ call.op = "list"
  /\ call' = Answered(r, WrapperList(r))
  /\ waitToken' = IF call.inst = "this" THEN WrapperList(r).token
                                        ELSE waitToken
  /\ UNCHANGED <<oneCallFrame, otherCfg>>

\* The debuggees list request is answered.
DebuggeesAnswered(r) ==
  /\ call.outcome = "pending"
  /\ call.op = "getDebuggees"
  /\ call' = Answered(r, WrapperDebuggeesList(r))
  /\ UNCHANGED <<oneCallFrame, waitToken, otherCfg>>

\* The request of another operation is answered, with what the Wrapper
\* accepts.
BackendResolved ==
  /\ call.outcome = "pending"
  /\ call.op \notin {"list", "getDebuggees"}
  /\ call' = [call EXCEPT !.outcome = "returned"]
  /\ UNCHANGED <<oneCallFrame, waitToken, otherCfg>>

NextOneCall ==
  \/ Authorize
  \/ SetDebuggeeId
  \/ OtherAuthorize
  \/ OtherSetDebuggeeId
  \/ \E w \in Instances, op \in BackendOps, b \in BOOLEAN :
       BackendCall(w, op, b)
  \/ \E error \in ListErrors : BackendRejected(error)
  \/ \E r \in ListResponses : ListAnswered(r)
  \/ \E r \in DebuggeesResponses : DebuggeesAnswered(r)
  \/ BackendResolved

SpecOneCall == InitOneCall /\ [][NextOneCall]_vars

\* ---- getBreakpoint, call by call ----
\* One DebugProxy of src/src/index.ts whose caller sets breakpoints and reads
\* them back with getBreakpoint, while the debuggee hits them on the
\* backend.  `call` is the getBreakpoint call: the id asked for, the
\* breakpoint it returned (got) and the one the successful getBreakpoint
\* call before it returned for the same id (before).
InitGet ==
  /\ proxyV = "index"
  /\ wrapperV \in WrapperVersions
  /\ Constructed

getFrame == <<configVars, waitToken, passVars, setCount, deleteCount, lastEvent,
              localVars, setReq, delReq, getSent, limiter, otherCfg>>

\* The debuggee reaches the breakpoint: the backend holds it in final state.
BackendHit(id) ==
  /\ ~backend[id].isFinalState
  /\ backend' = [backend EXCEPT ![id].isFinalState = TRUE]
  /\ UNCHANGED <<getFrame, breakpointInfoMap, call>>

\* What the call before this one returned, if it was a successful
\* getBreakpoint of the same id.
Before(id) ==
  IF call.op = "getBreakpoint" /\ call.outcome = "returned" /\ call.id = id
    THEN call.got ELSE NoBreakpoint

\* getBreakpoint up to the Wrapper's await: the ownership check, the
\* Wrapper's configuration checks, then the get request.
GGetBreakpoint(id) ==
  /\ call.outcome # "pending"
  /\ call' = [NoCall EXCEPT
       !.inst = "this", !.op = "getBreakpoint", !.id = id,
       !.before = Before(id),
       !.sent = IF Has(breakpointInfoMap, id) /\ ConfigError = "none"
                  THEN 1 ELSE 0,
       !.outcome = IF ~Has(breakpointInfoMap, id) THEN "notOwned"
                   ELSE IF ConfigError # "none" THEN ConfigError
                   ELSE "pending"]
  /\ UNCHANGED <<getFrame, breakpointInfoMap, backend>>

\* The answer to a get request for id: what the backend holds, in a
\* response the Wrapper takes for a breakpoint (valid) or does not.
GetResponse(id, valid) == [breakpoint |-> backend[id], valid |-> valid]

\* debuggeesBreakpointsGet after its await, and getBreakpoint's return.
GGetResolved(valid) ==
  /\ call.op = "getBreakpoint"
  /\ call.outcome = "pending"
  /\ LET r == GetResponse(call.id, valid) IN
     IF r.valid
       THEN /\ call' = [call EXCEPT !.outcome = "returned",
                                    !.got = r.breakpoint]
            /\ breakpointInfoMap' =
                 AfterGet(breakpointInfoMap, call.id, r.breakpoint.isFinalState)
       ELSE /\ call' = [call EXCEPT !.outcome = "thrown", !.err = WrapperError]
            /\ UNCHANGED breakpointInfoMap
  /\ UNCHANGED <<getFrame, backend>>

\* The get request fails: getBreakpoint has no catch.
GGetRejected(error) ==
  /\ call.op = "getBreakpoint"
  /\ call.outcome = "pending"
  /\ call' = [call EXCEPT !.outcome = "thrown", !.err = error]
  /\ UNCHANGED <<getFrame, breakpointInfoMap, backend>>

NextGet ==
  \/ Authorize
  \/ SetDebuggeeId
  \/ \E id \in Ids, path \in Paths : SetBreakpoint(id, path)
  \/ \E id \in Ids : BackendHit(id)
  \/ \E id \in Ids : GGetBreakpoint(id)
  \/ \E valid \in BOOLEAN : GGetResolved(valid)
  \/ \E error \in ListErrors : GGetRejected(error)

SpecGet == InitGet /\ [][NextGet]_vars

\* ---- passes against a backend that keeps its word ----
\* SpecBackend runs the operations of Spec against a backend whose answers
\* follow what it holds: it hands out every id once, a breakpoint the
\* debuggee has reached is final for good, a list response names no final
\* breakpoint, and a get response reports the breakpoint as the backend
\* holds it.  A list response may leave out breakpoints that are pending
\* (removed by someone else, or set after the response was put together).
InitBackend ==
  /\ proxyV \in ProxyVersions
  /\ wrapperV = 2
  /\ Constructed

FinalOnBackend == {id \in Ids : backend[id].isFinalState}

\* setBreakpoint, the backend answering with an id it has not used.
BSetBreakpoint(id, path) ==
  /\ setCount[id] = 0
  /\ SetBreakpoint(id, path)

\* The debuggee reaches a breakpoint that was set.
BHit(id) ==
  /\ setCount[id] > 0
  /\ BackendHit(id)

\* The list request is answered with breakpoints that are not final.
BListResolved(r) ==
  /\ r.bps # Undefined => r.bps \cap FinalOnBackend = {}
  /\ ListResolved(r)

\* A get request of step 4 is answered with what the backend holds.
BGetResolved(i) ==
  /\ pc = "gets"
  /\ GetResolved(i, backend[i].isFinalState)

BackendCallerStep ==
  \/ Authorize
  \/ SetDebuggeeId
  \/ \E id \in Ids, path \in Paths : BSetBreakpoint(id, path)
  \/ \E id \in Ids : RemoveBreakpoint(id)
  \/ RemoveAllBreakpoints
  \/ \E path \in Paths : RemovePendingBreakpointsForFile(path)

BackendPassStep ==
  \/ \E b \in BOOLEAN : UpdatePendingBreakpoints(b)
  \/ \E error \in ListErrors : ListRejected(error)
  \/ \E r \in ListResponses : BListResolved(r)
  \/ \E i \in Ids : BGetResolved(i)
  \/ \E i \in Ids : GetRejected(i)
  \/ Classify
  \/ \E i \in Ids : DeleteResolved(i)
  \/ \E i \in Ids : DeleteRejected(i)
  \/ PassSettled

NextBackend ==
  \/ BackendCallerStep
  \/ \E id \in Ids : BHit(id)
  \/ BackendPassStep

SpecBackend == InitBackend /\ [][NextBackend]_vars

\* The same backend with every call succeeding and the caller calling
\* updatePendingBreakpoints again and again: no request is rejected, every
\* list response passes the Wrapper, and a step of a pass that can be taken
\* is taken.
BListAccepted(r) ==
  /\ r.tok # EmptyToken
  /\ r.bad = {}
  /\ BListResolved(r)

BackendPassOkStep ==
  \/ \E b \in BOOLEAN : UpdatePendingBreakpoints(b)
  \/ \E r \in ListResponses : BListAccepted(r)
  \/ \E i \in Ids : BGetResolved(i)
  \/ Classify
  \/ \E i \in Ids : DeleteResolved(i)
  \/ PassSettled

NextBackendOk ==
  \/ BackendCallerStep
  \/ \E id \in Ids : BHit(id)
  \/ BackendPassOkStep

SpecBackendLive ==
  InitBackend /\ [][NextBackendOk]_vars /\ WF_vars(BackendPassOkStep)

\* ======================= properties =======================
\* A step of the pass (the caller's steps leave passVars alone).
IsPassStep == passVars' # passVars
\* The step that runs step 5 (classification) of a pass.
IsClassifyStep == pc = "gets" /\ pc' # "gets" /\ passResult' # "getError"
\* The results step 4 has collected.
FetchedFinal == InState(getQ, "final")
FetchedPending == InState(getQ, "pending")

\* C1: every delete request sent to the backend names an id that an earlier
\* successful setBreakpoint of this instance returned, whatever id the caller
\* passes to removeBreakpoint.
C1_DeletesNameOwnIds ==
  \A id \in Ids : deleteCount[id] > 0 => setCount[id] > 0
\* A delete request for an id this instance never set.
C1_ForeignDeleteSent ==
  \E id \in Ids : deleteCount[id] > 0 /\ setCount[id] = 0 /\ ~localOnly

\* C2: an id is a key of the registry exactly if a successful setBreakpoint
\* returned it and it has not been evicted since; an id never returned by
\* setBreakpoint (known from a list response at most) is never a key.
C2_KeyIffSetAndNotEvicted ==
  \A id \in Ids :
    /\ Has(breakpointInfoMap, id) <=> lastEvent[id] = "set"
    /\ Has(breakpointInfoMap, id) => setCount[id] > 0
\* A pass has completed with one id set and evicted, another never set.
C2_SetEvictedAndForeign ==
  /\ passResult = "ok"
  /\ \E id, other \in Ids :
       /\ setCount[id] > 0 /\ lastEvent[id] = "evicted"
       /\ ~Has(breakpointInfoMap, id)
       /\ setCount[other] = 0 /\ ~Has(breakpointInfoMap, other)

\* C3: while an entry stays in the registry its hit flag never goes from
\* true back to false, whatever operation runs.
C3_HitNeverReset ==
  [][\A id \in Ids :
       (Has(breakpointInfoMap, id) /\ Get(breakpointInfoMap, id).hit
          /\ Has(breakpointInfoMap', id))
       => Get(breakpointInfoMap', id).hit]_vars

\* C4: a pass emits 'breakpointHit' exactly if it turned the hit flag of
\* some entry from false to true; a pass whose fetched final-state
\* breakpoints were all marked hit before emits nothing.  Stated of the
\* passes that complete.
C4_EmitsIffNewlyHit ==
  (pc = "idle" /\ passResult = "ok") => (emitted > 0 <=> newlyHit # {})
\* A completed pass that emitted without a flag going from false to true.
C4_EmittedWithoutNewHit ==
  pc = "idle" /\ passResult = "ok" /\ emitted > 0 /\ newlyHit = {}

\* C5: step 5 evicts every registry entry whose get returned a breakpoint
\* that is not final, and sends exactly one delete for it; if no fetched
\* breakpoint is final the pass emits nothing.
C5_NonFinalEvictedOnce ==
  [][IsClassifyStep =>
       /\ \A id \in FetchedPending :
            Has(breakpointInfoMap, id) =>
              /\ ~Has(breakpointInfoMap', id)
              /\ deleteCount'[id] = deleteCount[id] + 1
       /\ FetchedFinal = {} => emitted' = emitted]_vars
\* Step 5 has thrown on the membership check and a pending entry, for which
\* no delete was ever sent, has outlived the pass.
C5_ClassificationThrew ==
  /\ pc = "idle" /\ passResult = "classifyError"
  /\ \E id \in Keys(breakpointInfoMap) :
       ~Get(breakpointInfoMap, id).hit /\ deleteCount[id] = 0

\* C6: a pending entry that the list response of the pass contains gets no
\* get and no delete from the pass and stays in the registry, pending, also
\* when the pass marks or evicts other entries.
C6_ListedEntryUntouched ==
  [][/\ \A id \in pendingBreakpointIdSet' :
          id \notin DOMAIN getQ' /\ id \notin DOMAIN delQ'
     /\ \A id \in pendingBreakpointIdSet :
          /\ Has(breakpointInfoMap, id) => ~Get(breakpointInfoMap, id).hit
          /\ IsPassStep =>
               /\ deleteCount'[id] = deleteCount[id]
               /\ Has(breakpointInfoMap, id) =>
                    /\ Has(breakpointInfoMap', id)
                    /\ Get(breakpointInfoMap', id) = Get(breakpointInfoMap, id)
    ]_vars
\* Step 5 has run, marking or evicting an entry, with a listed entry still
\* pending in the registry.
C6_ListedBesideChanged ==
  /\ pc = "dels"
  /\ newlyHit # {} \/ DOMAIN delQ # {}
  /\ \E id \in pendingBreakpointIdSet :
       Has(breakpointInfoMap, id) /\ ~Get(breakpointInfoMap, id).hit

\* C7: every aborted (409) answer to the list call is followed by one more
\* list call with the same wait token, so that k aborted answers and a
\* success make k + 1 calls; an aborted answer never ends the pass in an
\* error.
C7_AbortedListRetried ==
  /\ passResult # "abortedError"
  /\ pc = "list" => listCalls >= aborts + 1 /\ Cardinality(tokensSent) = 1
\* MaxAborts aborted answers have come and the next list call is out, the
\* pass still running.
C7_RetriedAfterAborts ==
  /\ pc = "list" /\ passResult = "running"
  /\ aborts = MaxAborts /\ listCalls = MaxAborts + 1

\* C8: a list call that fails with anything but aborted ends the pass in
\* that error after this one attempt: no list call follows it, and the pass
\* has changed no entry, sent no delete and emitted nothing.
C8_ListErrorEndsPass ==
  /\ pc = "list" => listCalls <= aborts + 1
  /\ passResult = "listError" =>
       /\ pc = "idle"
       /\ ~passChanged /\ emitted = 0 /\ newlyHit = {}
       /\ getQ = EmptyQ /\ delQ = EmptyQ
\* A pass over a non-empty registry, configuration complete, ended in a list
\* error.
C8_ListErrorWithEntries ==
  /\ passResult = "listError" /\ pc = "idle"
  /\ ConfigError = "none"
  /\ Keys(breakpointInfoMap) # {}

\* C9: a pass whose step-4 get fails has changed nothing: no hit flag, no
\* eviction, no delete, no emission; a pass changes nothing before its list
\* call and all its get calls have resolved.
C9_NothingBeforeGetsResolve ==
  /\ pc \in {"list", "gets"} => (~passChanged /\ emitted = 0)
  /\ passResult = "getError" => ~passChanged /\ emitted = 0 /\ newlyHit = {}
\* A pass over a non-empty registry ended in the error of a get.
C9_GetErrorWithEntries ==
  passResult = "getError" /\ pc = "idle" /\ Keys(breakpointInfoMap) # {}

\* C10: a failed delete request of step 5 is swallowed: it never becomes the
\* outcome of the pass.
C10_CleanupFailureSwallowed ==
  passResult # "deleteError"
\* A pass that was rejected with the error of a step-5 delete, after it had
\* evicted the entry.
C10_PassRejectedByDelete ==
  pc = "idle" /\ passResult = "deleteError" /\ passChanged

C12_AtMostCeilingOutstanding ==
  limiter.active <= CONCURRENCY
\* More than CONCURRENCY requests of one batch are out at once.
C12_CeilingExceeded ==
  limiter.op \in LimitOps /\ limiter.active > CONCURRENCY

\* C13: removeBreakpoint(id) on an id the registry does not hold sends no
\* delete request.  Stated for part_001, whose registry is localBreakpoints.
C13_AbsentIdSendsNoDelete ==
  [][\A id \in Ids :
       (LRemoveBreakpoint(id) /\ id \notin localBreakpoints) =>
         deleteCount' = deleteCount]_vars

\* part_001 has sent a delete request for an id its registry never held.
C13_DeleteForAbsentId ==
  \E id \in Ids :
    /\ proxyV = "local"
    /\ id \notin localBreakpoints
    /\ deleteCount[id] = 1

\* C13 in the Map-based revisions: removeBreakpoint(id) on an id the registry
\* does not hold changes nothing and sends no delete request; on an id it
\* holds, it evicts the entry in the step that sends the one delete request.
\* While that request is in flight, and after it has succeeded or failed, the
\* id is not in the registry: a failed delete does not restore the entry.
C13_EvictedBeforeDelete ==
  [][\A id \in Ids :
       /\ CRemoveBreakpoint(id) =>
             IF Has(breakpointInfoMap, id)
               THEN /\ ~Has(breakpointInfoMap', id)
                    /\ deleteCount'[id] = deleteCount[id] + 1
                    /\ delReq'[id].st = "inflight"
               ELSE /\ breakpointInfoMap' = breakpointInfoMap
                    /\ deleteCount' = deleteCount
       /\ delReq'[id].st # "none" => ~Has(breakpointInfoMap', id)]_vars

\* removeBreakpoint's delete request for an id has failed and the id is not
\* in the registry.
C13_FailedDeleteNotRestored ==
  \E id \in Ids :
    /\ delReq[id] = [by |-> "removeBreakpoint", st |-> "failed"]
    /\ setCount[id] > 0
    /\ deleteCount[id] > 0
    /\ ~Has(breakpointInfoMap, id)

\* C14: getBreakpoint(id) on an id the registry does not hold sends no request
\* to the backend and leaves the registry as it is.  Stated for part_001,
\* whose registry is localBreakpoints.
C14_AbsentIdSendsNoGet ==
  [][\A id \in Ids :
       (LGetBreakpoint(id) /\ id \notin localBreakpoints) =>
         /\ getSent' = getSent
         /\ localBreakpoints' = localBreakpoints]_vars

\* part_001 has sent a get request for an id its registry does not hold (the
\* set never shrinks, so it did not hold the id when the request went out).
C14_GetForAbsentId ==
  \E id \in getSent : id \notin localBreakpoints /\ setCount[id] = 0

\* C15: the registry gains an entry for a setBreakpoint call only in the step
\* in which the backend's answer arrives and is a valid breakpoint: the entry
\* is keyed by the answer's id, has hit = FALSE and the answer's path, and the
\* other entries stay.  The call itself, a failed request and an invalid
\* answer leave the registry as it is.
C15_EntryOnlyAfterValidSet ==
  [][/\ \A r \in SetResponses :
          CSetResolved(r) =>
            IF r.valid
              THEN /\ Has(breakpointInfoMap', r.id)
                   /\ ~Get(breakpointInfoMap', r.id).hit
                   /\ Get(breakpointInfoMap', r.id).path = r.path
                   /\ \A i \in Ids \ {r.id} :
                        /\ Has(breakpointInfoMap', i) = Has(breakpointInfoMap, i)
                        /\ Has(breakpointInfoMap, i) =>
                             Get(breakpointInfoMap', i) = Get(breakpointInfoMap, i)
              ELSE breakpointInfoMap' = breakpointInfoMap
     /\ (CSetCall \/ CSetRejected) => breakpointInfoMap' = breakpointInfoMap
     /\ \A id \in Ids :
          (~Has(breakpointInfoMap, id) /\ Has(breakpointInfoMap', id)) =>
            /\ setReq' = setReq - 1
            /\ setCount'[id] = setCount[id] + 1]_vars

\* One setBreakpoint call has been answered and its entry stored while
\* another call's request is still in flight and has stored nothing.
C15_StoredOnceAnswered ==
  /\ setReq = 1
  /\ \E id \in Ids :
       /\ Keys(breakpointInfoMap) = {id}
       /\ ~Get(breakpointInfoMap, id).hit
       /\ setCount = [i \in Ids |-> IF i = id THEN 1 ELSE 0]

\* C17: removeAllBreakpoints sends exactly one delete request for each id the
\* registry holds when it is called and none for any other id, and leaves the
\* registry empty in the same step, before any request is answered; the
\* answer to a delete request, failed or not, changes nothing in the registry.
C17_OneDeletePerEntryRegistryEmpty ==
  [][/\ CRemoveAllBreakpoints =>
          /\ breakpointInfoMap' = EmptyMap
          /\ \A id \in Ids :
               deleteCount'[id] =
                 deleteCount[id] + (IF Has(breakpointInfoMap, id) THEN 1 ELSE 0)
     /\ \A id \in Ids :
          (delReq[id].st = "inflight" /\ delReq'[id].st \in {"ok", "failed"}) =>
            /\ breakpointInfoMap' = breakpointInfoMap
            /\ deleteCount' = deleteCount]_vars

\* removeAllBreakpoints was called with every id in the registry; one of its
\* delete requests has failed, one has succeeded, and the registry is empty.
C17_AllRemovedOneDeleteFailed ==
  /\ breakpointInfoMap = EmptyMap
  /\ \A id \in Ids :
       /\ delReq[id].by = "removeAllBreakpoints"
       /\ deleteCount[id] = 1
  /\ \E id \in Ids : delReq[id].st = "failed"
  /\ \E id \in Ids : delReq[id].st = "ok"

\* C16: a setBreakpoint whose answer carries an id that is already a key of
\* the registry neither replaces nor resets the entry the registry holds.
C16_DuplicateInsertKeepsEntry ==
  [][\A id \in Ids, path \in Paths :
       (SetBreakpoint(id, path) /\ Has(breakpointInfoMap, id)) =>
         breakpointInfoMap' = breakpointInfoMap]_vars

\* setBreakpoint has returned an id twice and the id was never evicted in
\* between: the second answer named a key of the registry.
C16_SetTwiceNeverEvicted ==
  \E id \in Ids :
    /\ setCount[id] = 2
    /\ deleteCount[id] = 0
    /\ Has(breakpointInfoMap, id)

\* C18: removePendingBreakpointsForFile(path) evicts, and sends one delete
\* request for, exactly the entries with hit = FALSE whose path is path, in
\* whatever order the registry is iterated; every other entry stays as it is
\* and no delete request is sent for its id.
C18_ExactlyPendingOfFile ==
  [][\A p \in Paths :
       CRemovePendingBreakpointsForFile(p) =>
         \A id \in Ids :
           IF /\ Has(breakpointInfoMap, id)
              /\ ~Get(breakpointInfoMap, id).hit
              /\ Get(breakpointInfoMap, id).path = p
             THEN /\ ~Has(breakpointInfoMap', id)
                  /\ deleteCount'[id] = deleteCount[id] + 1
             ELSE /\ Has(breakpointInfoMap', id) = Has(breakpointInfoMap, id)
                  /\ Has(breakpointInfoMap, id) =>
                       Get(breakpointInfoMap', id) = Get(breakpointInfoMap, id)
                  /\ deleteCount'[id] = deleteCount[id]]_vars

\* removePendingBreakpointsForFile has evicted a pending entry, and the
\* registry still holds a hit entry no delete request was ever sent for.
C18_HitEntryKept ==
  \E id, kept \in Ids :
    /\ delReq[id].by = "removePendingBreakpointsForFile"
    /\ ~Has(breakpointInfoMap, id)
    /\ Has(breakpointInfoMap, kept)
    /\ Get(breakpointInfoMap, kept).hit
    /\ deleteCount[kept] = 0

\* C19: from every state, a setBreakpoint that returns id followed at once by
\* removeBreakpoint(id) leaves the registry exactly as it was before the
\* setBreakpoint.  The two operations are taken by what they do to the
\* registry: the insertion of setBreakpoint, then the ownership check and the
\* eviction of removeBreakpoint.
C19_SetThenRemoveRestores ==
  \A id \in Ids, path \in Paths :
    LET afterSet == MapSet(breakpointInfoMap, id, NewInfo(id, path)) IN
    /\ Has(afterSet, id)
    /\ MapDelete(afterSet, id) = breakpointInfoMap

\* setBreakpoint returned an id that was a key of the registry, and
\* removeBreakpoint then evicted it: the entry the registry held before the
\* setBreakpoint is gone.
C19_DuplicateSetThenRemoved ==
  \E id \in Ids :
    /\ setCount[id] = 2
    /\ deleteCount[id] = 1
    /\ lastEvent[id] = "evicted"
    /\ ~Has(breakpointInfoMap, id)

\* C20: every successful list response replaces the stored wait token by its
\* nextWaitToken, so that the next list call made with block = TRUE carries
\* the token of the most recent successful response.  Stated of the responses
\* both revisions of the Wrapper accept: a nextWaitToken and a list of valid
\* pending breakpoints.
C20_SuccessfulListReplacesToken ==
  [][\A r \in ListResponses :
       (/\ ListResolved(r)
        /\ r.tok # EmptyToken
        /\ r.bps # Undefined
        /\ r.bad = {}) => waitToken' = r.tok]_vars

\* The first revision of the Wrapper has accepted a list response, and the
\* stored wait token is still the empty one.
C20_TokenNotStored ==
  /\ wrapperV = 1
  /\ pc = "gets"
  /\ waitToken = EmptyToken

\* C21: a call of updatePendingBreakpoints emits 'breakpointHit' at most
\* once, however many breakpoints the pass finds final, and nothing is
\* emitted while the list call or the get calls of step 4 are under way, nor
\* by a pass that failed in one of them.
C21_AtMostOneEmission ==
  /\ emitted <= 1
  /\ pc \in {"list", "gets"} => emitted = 0
  /\ (pc = "idle" /\ passResult \in {"listError", "abortedError", "getError"})
       => emitted = 0

\* A pass has found two breakpoints final and has emitted once.
C21_TwoHitsOneEmission ==
  /\ Cardinality(newlyHit) = 2
  /\ emitted = 1
  /\ passResult = "ok"

C23_AccessorResultsDisjoint ==
  LGetBreakpointList(TRUE) \cap LGetBreakpointList(FALSE) = {}

\* part_001 returns the same non-empty list for true and for false.
C23_SameListForBoth ==
  /\ proxyV = "local"
  /\ LGetBreakpointList(TRUE) # {}
  /\ LGetBreakpointList(TRUE) = LGetBreakpointList(FALSE)

\* C23 in the Map-based revisions: the accessor called with true returns
\* exactly the entries whose hit flag is true, called with false exactly those
\* whose flag is false; the two results are disjoint and cover the registry.
C23_HitStatePartition ==
  /\ GetSnapshotIdList(breakpointInfoMap, TRUE) =
       {id \in Ids : Has(breakpointInfoMap, id) /\ Get(breakpointInfoMap, id).hit}
  /\ GetSnapshotIdList(breakpointInfoMap, FALSE) =
       {id \in Ids : Has(breakpointInfoMap, id) /\ ~Get(breakpointInfoMap, id).hit}
  /\ GetSnapshotIdList(breakpointInfoMap, TRUE)
       \cap GetSnapshotIdList(breakpointInfoMap, FALSE) = {}
  /\ GetSnapshotIdList(breakpointInfoMap, TRUE)
       \cup GetSnapshotIdList(breakpointInfoMap, FALSE) = Keys(breakpointInfoMap)

\* C24: the aborted condition is retried for the list call only.  A request
\* of any other operation that is rejected with status 409 is not sent again
\* and the error reaches the operation's caller: no such operation ever has
\* more than one request to its name.
C24_AbortedRetriedOnlyForList ==
  [][/\ \A error \in ListErrors :
          (BackendRejected(error) /\ call.op # "list" /\ IsAborted(error)) =>
            /\ call'.outcome = "thrown"
            /\ call'.err = error
            /\ call'.sent = 1
     /\ call'.op # "list" => call'.sent <= 1]_vars

\* The getBreakpoint of a pass's step 4 was rejected with status 409 after
\* one request, and the error went to the caller.
C24_AbortedGetThrown ==
  /\ call.op = "passGet"
  /\ call.outcome = "thrown"
  /\ IsAborted(call.err)
  /\ call.sent = 1

\* C25: with the backend answering every request, and the list call in the
\* end with something other than the aborted condition, every call of
\* updatePendingBreakpoints completes: it returns or throws.
C25_PassEventuallyCompletes == (pc # "idle") ~> (pc = "idle")

\* A call has gone through the list call, the gets and the deletes, and has
\* returned.
C25_PassRanToItsEnd ==
  /\ pc = "idle"
  /\ passResult = "ok"
  /\ passChanged
  /\ newlyHit # {}
  /\ \E id \in Ids : lastEvent[id] = "evicted" /\ deleteCount[id] > 0

\* C26: a backend operation called on an instance that is not authorized
\* fails with the project error, and a breakpoint operation called on an
\* authorized instance without debuggee id fails with the debuggee error; in
\* both cases no request is sent, and the project error comes first when both
\* are missing.  Otherwise the request goes out.  Authorizing or configuring
\* one instance leaves the other instance as it is.
C26_ConfigurationChecked ==
  [][/\ \A w \in Instances, op \in BackendOps, b \in BOOLEAN :
          BackendCall(w, op, b) =>
            LET a == (w = "this" /\ auth) \/ (w = "other" /\ otherCfg.auth)
                d == \/ w = "this" /\ debuggeeId
                     \/ w = "other" /\ otherCfg.debuggeeId
            IN  /\ ~a => call'.outcome = "project" /\ call'.sent = 0
                /\ (a /\ ~d /\ op # "getDebuggees") =>
                     call'.outcome = "debuggee" /\ call'.sent = 0
                /\ (a /\ (d \/ op = "getDebuggees")) =>
                     call'.outcome = "pending" /\ call'.sent = 1
     /\ (auth' # auth \/ debuggeeId' # debuggeeId) => otherCfg' = otherCfg
     /\ otherCfg' # otherCfg => (auth' = auth /\ debuggeeId' = debuggeeId)]_vars

\* One instance is authorized and has got a request out since; a breakpoint
\* operation on the other, which has a debuggee id and no authorization, has
\* failed with the project error without a request.
C26_OtherInstanceNotAuthorized ==
  /\ auth /\ debuggeeId
  /\ ~otherCfg.auth /\ otherCfg.debuggeeId
  /\ call.inst = "other"
  /\ call.op = "setBreakpoint"
  /\ call.outcome = "project"
  /\ call.sent = 0

\* C27: a list response, of breakpoints or of debuggees, with an element
\* that fails validation (for breakpoints: also one in final state) fails the
\* whole call, wherever the element stands in the list: the call throws the
\* Wrapper's error and hands no list, not even the valid elements, to its
\* caller.
C27_BadElementFailsWholeList ==
  (call.op \in {"list", "getDebuggees"} /\ call.answer.bad # {}) =>
    /\ call.outcome = "thrown"
    /\ call.err = WrapperError
    /\ call.result = {}
\* witness: a breakpoint list whose last element alone is bad was refused.
C27_LastElementBadListRefused ==
  /\ call.op = "list"
  /\ call.outcome = "thrown"
  /\ call.answer # NoAnswer
  /\ call.answer.tok # EmptyToken
  /\ call.answer.bps = Ids
  /\ call.answer.bad = {NumIds}
\* In a pass, such a response ends the pass with the Wrapper's error before
\* any get is dispatched; the registry is as it was.
C27_BadListNotUsedByPass ==
  [][\A r \in ListResponses :
       (ListResolved(r) /\ r.bps # Undefined /\ r.bad # {}) =>
         /\ pc' = "idle"
         /\ passResult' = "listError"
         /\ breakpointInfoMap' = breakpointInfoMap
         /\ deleteCount' = deleteCount
         /\ emitted' = emitted]_vars

\* C28: a successful breakpoint list response without a breakpoints field,
\* and a successful debuggees list response without a debuggees field, make
\* the call return the empty list; a breakpoint list response without
\* nextWaitToken makes the call fail, whether it was sent with wait true or
\* false and whatever breakpoints it lists.
C28_MissingFieldIsEmptyList ==
  /\ (/\ call.op = "list"
      /\ call.answer # NoAnswer
      /\ call.answer.tok # EmptyToken
      /\ call.answer.bps = Undefined) =>
        (call.outcome = "returned" /\ call.result = {})
  /\ (/\ call.op = "getDebuggees"
      /\ call.answer # NoAnswer
      /\ call.answer.debuggees = Undefined) =>
        (call.outcome = "returned" /\ call.result = {})
  /\ (/\ call.op = "list"
      /\ call.answer # NoAnswer
      /\ call.answer.tok = EmptyToken) =>
        (call.outcome = "thrown" /\ call.err = WrapperError)
\* The first Wrapper revision refused a debuggees response because it had no
\* debuggees field.
C28_MissingDebuggeesRefused ==
  /\ wrapperV = 1
  /\ call.op = "getDebuggees"
  /\ call.answer # NoAnswer
  /\ call.answer.debuggees = Undefined
  /\ call.outcome = "thrown"
\* The part that holds in both Wrapper revisions: without nextWaitToken the
\* list call fails for either value of wait, valid breakpoints or not.
C28_MissingTokenFails ==
  \A b \in BOOLEAN :
    (/\ call.op = "list"
     /\ call.wait = b
     /\ call.answer # NoAnswer
     /\ call.answer.tok = EmptyToken) =>
       (call.outcome = "thrown" /\ call.err = WrapperError /\ call.result = {})
\* Such a refusal happened for wait true and valid breakpoints.
C28_BlockingListWithoutTokenRefused ==
  /\ call.op = "list"
  /\ call.wait
  /\ call.answer # NoAnswer
  /\ call.answer.tok = EmptyToken
  /\ call.answer.bps = Ids
  /\ call.answer.bad = {}
  /\ call.outcome = "thrown"

\* C29: a successful getBreakpoint on an owned id leaves the registry as it
\* was, keys, hit flags and stored data; and when the successful getBreakpoint
\* before it was for the same id and returned what the backend still holds
\* (no backend change in between), it returns a breakpoint structurally
\* identical to that one.
C29_GetBreakpointReadsOnly ==
  [][GGetResolved(TRUE) =>
         /\ breakpointInfoMap' = breakpointInfoMap
         /\ Has(breakpointInfoMap, call.id)
         /\ (call.before # NoBreakpoint /\ backend[call.id] = call.before) =>
              call'.got = call.before]_vars
\* witness: two successive successful getBreakpoint calls on an owned pending
\* id, the second returning what the first did.
C29_SecondReadSameBreakpoint ==
  /\ call.op = "getBreakpoint"
  /\ call.outcome = "returned"
  /\ Has(breakpointInfoMap, call.id)
  /\ call.before # NoBreakpoint
  /\ ~call.before.isFinalState
  /\ call.got = call.before

\* C30: a pass never evicts, and never sends a delete for, an owned
\* breakpoint that is still pending on the backend: an owned id that the
\* list response did not name (set, say, while the list call was in flight)
\* and whose get was answered with a breakpoint not in final state is still
\* in the registry after step 5, with no delete request sent for it.
C30_PendingOwnedNeverEvicted ==
  [][IsClassifyStep =>
       \A id \in FetchedPending :
         Has(breakpointInfoMap, id) =>
           /\ Has(breakpointInfoMap', id)
           /\ deleteCount'[id] = deleteCount[id]]_vars
\* Step 5 has evicted an id this instance had set and whose get had come
\* back not in final state, and its delete request is on its way.
C30_PendingOwnedEvicted ==
  /\ pc = "dels"
  /\ \E id \in DOMAIN delQ :
       /\ delQ[id] = "inflight"
       /\ setCount[id] > 0
       /\ deleteCount[id] > 0
       /\ ~Has(breakpointInfoMap, id)

\* C31: whatever removeBreakpoint, removeAllBreakpoints,
\* removePendingBreakpointsForFile and setBreakpoint do at the suspension
\* points of a pass, every breakpoint a step-4 get has returned is still a
\* registry key when step 5 classifies it: the membership check of the
\* final-state branch does not fail, and no removeBreakpoint of step 5 raises
\* the ownership error.
C31_FetchedStillOwned ==
  [][/\ IsClassifyStep =>
          /\ FetchedFinal \cup FetchedPending \subseteq Keys(breakpointInfoMap)
          /\ passResult' # "classifyError"
     /\ passResult' # "ownershipError"
     /\ InState(delQ', "rejected") = {}]_vars
\* A pass has ended on the failed membership check of step 5, after a caller
\* evicted the entry whose get was in flight.
C31_MembershipCheckFailed ==
  /\ pc = "idle"
  /\ passResult = "classifyError"
  /\ \E id \in Ids : lastEvent[id] = "evicted" /\ ~Has(breakpointInfoMap, id)

\* C32: within a pass 'breakpointHit' is emitted only once every breakpoint
\* the pass classified as externally removed has been evicted and has its
\* delete request out, also when the pass removes more breakpoints than
\* CONCURRENCY: at the emission no removal of step 5 waits to be started.
C32_EmittedAfterRemovalsDispatched ==
  [][\A n \in 1..MaxBatch :
       ClassifyRemovals(n, TRUE) => limiter'.queued = 0]_vars
\* The event has been emitted while a removal of the same pass was still
\* held back by the limiter.
C32_EmittedBeforeQueuedRemoval ==
  /\ limiter.op = "removals"
  /\ emitted = 1
  /\ limiter.done = 0
  /\ limiter.queued > 0

\* C33: against a backend that never lists as pending a breakpoint it has
\* reported as final, the assertion of step 3 never fails: every id that is
\* both in a list response and in the registry has hit = false, so no pass
\* ends on the assertion.
C33_Step3AssertionNeverFails ==
  /\ passResult # "assertError"
  /\ \A id \in pendingBreakpointIdSet :
       Has(breakpointInfoMap, id) => ~Get(breakpointInfoMap, id).hit
\* witness: step 3 has found a listed id in the registry while another entry
\* is marked hit.
C33_ListedBesideHitEntry ==
  /\ pc = "gets"
  /\ pendingBreakpointIdSet # {}
  /\ \E id \in Keys(breakpointInfoMap) : Get(breakpointInfoMap, id).hit

\* C34: an owned breakpoint that has become final on the backend and stays in
\* the registry is, with updatePendingBreakpoints called again and again and
\* every backend call succeeding, eventually marked hit by a pass that emits
\* 'breakpointHit'.
C34_FinalEventuallyHit ==
  \A id \in Ids :
    (/\ id \in FinalOnBackend
     /\ Has(breakpointInfoMap, id)
     /\ ~Get(breakpointInfoMap, id).hit) ~>
      \/ ~Has(breakpointInfoMap, id)
      \/ Get(breakpointInfoMap, id).hit /\ emitted = 1
\* A pass has marked an entry hit and has thrown, in the same step 5, before
\* the emission.
C34_MarkedWithoutEmission ==
  /\ pc = "idle"
  /\ passResult = "classifyError"
  /\ emitted = 0
  /\ \E id \in newlyHit :
       id \in FinalOnBackend /\ Get(breakpointInfoMap, id).hit
\* What does hold: the entry is eventually marked hit, or leaves the registry.
C34_FinalEventuallyMarked ==
  \A id \in Ids :
    (id \in FinalOnBackend /\ Has(breakpointInfoMap, id)) ~>
      (~Has(breakpointInfoMap, id) \/ Get(breakpointInfoMap, id).hit)
\* The pass that does it is the first whose list response does not name the
\* id: step 5 of a pass whose get found the entry final and that reaches the
\* emission marks it and emits exactly once.
C34_FirstPassWithoutIdMarks ==
  [][(IsClassifyStep /\ passResult' # "classifyError") =>
       \A id \in FetchedFinal :
         (Has(breakpointInfoMap, id) /\ ~Get(breakpointInfoMap, id).hit) =>
           /\ Has(breakpointInfoMap', id)
           /\ Get(breakpointInfoMap', id).hit
           /\ id \in newlyHit'
           /\ emitted' = 1]_vars

\* C35: for every id, in every reachable state, the delete requests sent for
\* it are at most as many as the setBreakpoint calls that returned it: no
\* breakpoint is deleted twice, whatever passes and remove* calls interleave.
C35_NoMoreDeletesThanSets ==
  \A id \in Ids : deleteCount[id] <= setCount[id]
\* The part_001 revision has sent two delete requests for an id that
\* setBreakpoint returned once, with localOnly set and the id its own.
C35_DeletedTwice ==
  \E id \in Ids :
    /\ proxyV = "local"
    /\ localOnly
    /\ id \in localBreakpoints
    /\ setCount[id] = 1
    /\ deleteCount[id] = 2
\* C35 in the Map-based revisions, where every delete request follows the
\* eviction of an entry that a setBreakpoint stored.
C35_MapRevisionsDeleteOncePerSet ==
  \A id \in Ids :
    /\ deleteCount[id] <= setCount[id]
    /\ Has(breakpointInfoMap, id) => deleteCount[id] < setCount[id]

\* C36: against a backend that leaves a breakpoint as it is once it is
\* final, revision "cached" fetches the breakpoint of every entry marked hit
\* again in every later pass, the fetched breakpoint equals the cached one
\* (the equality assertion of step 5 never fails), and no step of a pass
\* replaces the cached breakpoint of a hit entry.
C36_HitEntryRefetchedUnchanged ==
  [][proxyV = "cached" =>
       /\ passResult' # "equalityError"
       /\ (pc = "list" /\ pc' = "gets") =>
            GetSnapshotIdList(breakpointInfoMap, TRUE) \subseteq DOMAIN getQ'
       /\ IsClassifyStep =>
            \A id \in GetSnapshotIdList(breakpointInfoMap, TRUE) :
              /\ id \in FetchedFinal
              /\ Get(breakpointInfoMap, id).breakpoint = Fetched(id, getQ[id])
       /\ IsPassStep =>
            \A id \in GetSnapshotIdList(breakpointInfoMap, TRUE) :
              Has(breakpointInfoMap', id) =>
                Get(breakpointInfoMap', id) = Get(breakpointInfoMap, id)]_vars
\* witness: a later pass of revision "cached" has fetched the breakpoint of
\* an entry that an earlier pass marked hit.
C36_HitEntryFetchedAgain ==
  /\ proxyV = "cached"
  /\ pc = "gets"
  /\ \E id \in DOMAIN getQ :
       /\ getQ[id] = "final"
       /\ Has(breakpointInfoMap, id)
       /\ Get(breakpointInfoMap, id).hit
       /\ Get(breakpointInfoMap, id).breakpoint = Held(id, TRUE)

C37_TokenStoredBeforeValidation ==
  (/\ call.op = "list"
   /\ call.inst = "this"
   /\ call.answer # NoAnswer
   /\ call.answer.tok # EmptyToken
   /\ call.answer.bps # Undefined
   /\ call.answer.bad # {}) =>
     /\ call.outcome = "thrown"
     /\ waitToken = call.answer.tok
     /\ RequestToken(TRUE) = call.answer.tok
\* The first Wrapper revision has refused such a response and still holds
\* its initial token.
C37_TokenOfRefusedResponseLost ==
  /\ wrapperV = 1
  /\ call.op = "list"
  /\ call.inst = "this"
  /\ call.outcome = "thrown"
  /\ call.answer # NoAnswer
  /\ call.answer.tok # EmptyToken
  /\ call.answer.bad # {}
  /\ waitToken = EmptyToken
\* C37 in a pass of the second Wrapper revision: the refused response ends
\* the pass with the Wrapper's error and leaves its token stored, and a pass
\* called with block = true sends the stored token.
C37_SecondRevisionStoresFirst ==
  [][/\ \A r \in ListResponses :
          (/\ ListResolved(r)
           /\ wrapperV = 2
           /\ r.tok # EmptyToken
           /\ r.bps # Undefined
           /\ r.bad # {}) =>
             /\ waitToken' = r.tok
             /\ pc' = "idle"
             /\ passResult' = "listError"
     /\ (UpdatePendingBreakpoints(TRUE) /\ pc' = "list") =>
          tokensSent' = {waitToken}]_vars

\* C38: a pass adds no key to the registry, and issues no get and no delete
\* for an id that is not a registry key, in the list response or not: each
\* step of a pass leaves the registry's key set a subset of what it was, so
\* the key set after a pass without interleaved calls is a subset of the key
\* set before it.
C38_PassTouchesOwnedOnly ==
  [][/\ IsPassStep =>
          /\ Keys(breakpointInfoMap') \subseteq Keys(breakpointInfoMap)
          /\ \A id \in Ids :
               deleteCount'[id] > deleteCount[id] => Has(breakpointInfoMap, id)
     /\ (pc = "list" /\ pc' = "gets") =>
          /\ DOMAIN getQ' \subseteq Keys(breakpointInfoMap)
          /\ pendingBreakpointIdSet' \subseteq Keys(breakpointInfoMap)
          /\ DOMAIN getQ' \cap pendingBreakpointIdSet' = {}]_vars
\* witness: step 4 has dispatched its gets, none of them for the id that is
\* not in the registry.
C38_GetsForOwnedOnly ==
  /\ pc = "gets"
  /\ DOMAIN getQ # {}
  /\ \E id \in Ids : ~Has(breakpointInfoMap, id) /\ id \notin DOMAIN getQ

\* C40: an entry marked hit is removed neither by a pass nor by
\* removePendingBreakpointsForFile while the backend reports its breakpoint
\* final; it leaves the registry through removeBreakpoint or
\* removeAllBreakpoints only, so in every other step the set of hit entries
\* only grows.
C40_HitSetOnlyGrows ==
  [][LET hitBefore == {id \in Keys(breakpointInfoMap) :
                         Get(breakpointInfoMap, id).hit}
         hitAfter == {id \in Keys(breakpointInfoMap') :
                        Get(breakpointInfoMap', id).hit}
     IN \/ \E id \in Ids : RemoveBreakpoint(id)
        \/ RemoveAllBreakpoints
        \/ IsClassifyStep /\ FetchedPending \cap hitBefore # {}
        \/ hitBefore \subseteq hitAfter]_vars
\* The same with the step the claim leaves out: a setBreakpoint whose
\* response carries the id of a hit entry replaces the entry.
C40_HitSetGrowsButForDuplicateSet ==
  [][LET hitBefore == {id \in Keys(breakpointInfoMap) :
                         Get(breakpointInfoMap, id).hit}
         hitAfter == {id \in Keys(breakpointInfoMap') :
                        Get(breakpointInfoMap', id).hit}
     IN \/ \E id \in Ids : RemoveBreakpoint(id)
        \/ RemoveAllBreakpoints
        \/ IsClassifyStep /\ FetchedPending \cap hitBefore # {}
        \/ \E id \in hitBefore, path \in Paths : SetBreakpoint(id, path)
        \/ hitBefore \subseteq hitAfter]_vars
\* A pass has completed and kept an entry that was marked hit before it.
C40_HitEntryKeptByPass ==
  /\ pc = "idle" /\ passResult = "ok"
  /\ \E id \in Ids :
       /\ Has(breakpointInfoMap, id) /\ Get(breakpointInfoMap, id).hit
       /\ id \notin newlyHit
====
